---- MODULE Spec2Model ----
(***************************************************************************)
(* Model of the NestJS generator CI scripts:                               *)
(*   runner.py      NestjsGeneratorRunner   (build_cli_command, execute)   *)
(*   pr_builder.py  NestjsGeneratorPRBuilder (build_pr_*, create_pr)       *)
(*                                                                         *)
(* A program string is a sequence of chunks (TLA+ strings): "" is << >>,   *)
(* "null" is <<"null">>, a URL is <<"https://host/org/repo/pull","/","4",  *)
(* "2">>, and a JSON text is its sequence of lexical tokens, where a chunk *)
(* that is no punctuation, blank or number stands for a quoted string      *)
(* literal: ["kafka","redis"] is <<"[","kafka",",","redis","]">>.          *)
(***************************************************************************)
EXTENDS Integers, Sequences, FiniteSets, TLC

\* ------------------------------------------------------------------ bounds
\* Longest JSON array (in elements) the parameters are drawn from.
MaxElems == 2
\* Longest pull-request number (in digits) the platform hands out.
MaxDigits == 2
\* Number of times the publish script is run against the same platform.
MaxRuns == 2

\* ----------------------------------------------------------------- strings
S(c) == <<c>>
EmptyStr == << >>

\* Python truthiness of a str: non-empty.
Truthy(s) == s # EmptyStr

\* sep.join(list) for a list of strings.
RECURSIVE Join(_, _)
Join(sep, list) ==
    IF list = << >> THEN EmptyStr
    ELSE IF Len(list) = 1 THEN list[1]
    ELSE list[1] \o sep \o Join(sep, Tail(list))

\* str.strip(): leading and trailing whitespace removed.
Whitespace == {" ", "\n", "\t"}
RECURSIVE LStrip(_)
LStrip(s) == IF s # << >> /\ s[1] \in Whitespace THEN LStrip(Tail(s)) ELSE s
RECURSIVE RStrip(_)
RStrip(s) ==
    IF s # << >> /\ s[Len(s)] \in Whitespace THEN RStrip(SubSeq(s, 1, Len(s) - 1)) ELSE s
Strip(s) == RStrip(LStrip(s))

\* All sequences over set A with length in lo..hi.
SeqsOf(A, lo, hi) == UNION {[1..n -> A] : n \in lo..hi}

\* -------------------------------------------------------------------- JSON
Blank == " "
Punct == {"[", "]", ","}
NumTok == {"5"}
IsElemTok(t) == t \notin Punct /\ t # Blank

\* A decoded JSON scalar: a str or a number.
Decoded(t) == [kind |-> IF t \in NumTok THEN "num" ELSE "str", v |-> t]

\* The text with its insignificant whitespace removed.
StripBlanks(raw) == SelectSeq(raw, LAMBDA t : t # Blank)

\* The tokens between the brackets form  elem ("," elem)*
IsElemList(inner) ==
    /\ Len(inner) % 2 = 1
    /\ \A i \in 1..Len(inner) :
          IF i % 2 = 1 THEN IsElemTok(inner[i]) ELSE inner[i] = ","

\* json.loads(raw): [ok |-> FALSE] stands for json.JSONDecodeError; otherwise
\* the decoded value, a list of scalars or a bare number.
JsonLoads(raw) ==
    LET toks == StripBlanks(raw)
        n == Len(toks)
    IN  IF n = 1 /\ toks[1] \in NumTok
        THEN [ok |-> TRUE, kind |-> "num", val |-> << >>]
        ELSE IF n >= 2 /\ toks[1] = "[" /\ toks[n] = "]"
        THEN LET inner == SubSeq(toks, 2, n - 1)
             IN  IF inner = << >>
                 THEN [ok |-> TRUE, kind |-> "list", val |-> << >>]
                 ELSE IF IsElemList(inner)
                 THEN [ok |-> TRUE, kind |-> "list",
                       val |-> [k \in 1..((Len(inner) + 1) \div 2) |->
                                   Decoded(inner[2 * k - 1])]]
                 ELSE [ok |-> FALSE, kind |-> "error", val |-> << >>]
        ELSE [ok |-> FALSE, kind |-> "error", val |-> << >>]

\* json.dumps of a list of str identifiers, without blanks.
RECURSIVE EncodeElems(_)
EncodeElems(list) ==
    IF list = << >> THEN << >>
    ELSE IF Len(list) = 1 THEN <<list[1]>>
    ELSE <<list[1], ",">> \o EncodeElems(Tail(list))

Encode(list) == <<"[">> \o EncodeElems(list) \o <<"]">>

\* The JSON texts a parameter is drawn from, over element identifiers ids:
\* every array of up to MaxElems identifiers, each also with its closing
\* bracket missing (malformed), the empty text, an array holding only a
\* blank, a bare number, and an array holding a number.
RawJson(ids) ==
    LET lists == SeqsOf(ids, 0, MaxElems)
    IN  {Encode(l) : l \in lists}
        \cup {<<"[">> \o EncodeElems(l) : l \in lists}
        \cup {EmptyStr, <<"[", Blank, "]">>, <<"5">>, <<"[", "5", "]">>}

EmptyList == <<"[", "]">>

\* Optional[str] arguments as argparse delivers them.
None == [some |-> FALSE, v |-> EmptyStr]
Some(s) == [some |-> TRUE, v |-> s]
\* Python's  x or ""  for an Optional[str].
OrEmpty(opt) == IF opt.some /\ Truthy(opt.v) THEN opt.v ELSE EmptyStr

\* The absence rule:  value and value != "null".
Present(s) == Truthy(s) /\ s # S("null")

\* ------------------------------------------------------------ runner.py
COMPONENT_MAP ==
    [c \in {"kafka", "orm", "grpc", "gql", "redis", "swagger", "gotDummy"} |->
        CASE c = "kafka" -> "--kafka"
          [] c = "orm" -> "--orm"
          [] c = "grpc" -> "--grpc"
          [] c = "gql" -> "--gql"
          [] c = "redis" -> "--redis"
          [] c = "swagger" -> "--swagger"
          [] c = "gotDummy" -> "--got"]

\* NestjsGeneratorRunner.__init__
NestjsGeneratorRunner(args) ==
    [generator_name |-> args.generator_name,
     project_name |-> args.project_name,
     project_type |-> args.project_type,
     components |-> args.components,
     healthcheck_components |-> args.healthcheck_components,
     description |-> OrEmpty(args.description),
     author |-> OrEmpty(args.author),
     with_examples |-> args.with_examples,
     output_dir |-> args.output_dir]

Prefix(r) ==
    <<S("yo"), r.generator_name, S("--headless"), S("--project-type"),
      r.project_type, S("--name"), r.project_name, S("--skip-install")>>

\* Faulty variant of ComponentFlags: a flag already emitted is not repeated.
RECURSIVE ComponentFlags_dedup(_)
ComponentFlags_dedup(list) ==
    IF list = << >> THEN << >>
    ELSE LET rest == ComponentFlags_dedup(SubSeq(list, 1, Len(list) - 1))
             comp == list[Len(list)]
         IN  IF comp.kind = "str" /\ comp.v \in DOMAIN COMPONENT_MAP
                /\ \A i \in 1..Len(rest) : rest[i] # S(COMPONENT_MAP[comp.v])
             THEN Append(rest, S(COMPONENT_MAP[comp.v]))
             ELSE rest

\* for comp in components_list: if comp in COMPONENT_MAP: cmd.append(...)
RECURSIVE ComponentFlags(_)
ComponentFlags(list) ==
    IF list = << >> THEN << >>
    ELSE LET comp == list[1]
         IN  (IF comp.kind = "str" /\ comp.v \in DOMAIN COMPONENT_MAP
              THEN <<S(COMPONENT_MAP[comp.v])>>
              ELSE << >>) \o ComponentFlags(Tail(list))

\* Faulty variant of ComponentsStep: a decoding failure is swallowed, as the message
\* compiler does.
ComponentsStep_lenient(r) ==
    IF r.components = EmptyList THEN [ok |-> TRUE, flags |-> << >>]
    ELSE LET d == JsonLoads(r.components)
         IN  [ok |-> TRUE,
              flags |-> IF d.ok /\ d.kind = "list" THEN ComponentFlags(d.val) ELSE << >>]

\* The components step: [ok, flags]; ok = FALSE is the except branch
\* (JSONDecodeError, or TypeError when the decoded value is not iterable).
ComponentsStep(r) ==
    IF r.components = EmptyList THEN [ok |-> TRUE, flags |-> << >>]
    ELSE LET d == JsonLoads(r.components)
         IN  IF d.ok /\ d.kind = "list"
             THEN [ok |-> TRUE, flags |-> ComponentFlags(d.val)]
             ELSE [ok |-> FALSE, flags |-> << >>]

\* The health-check step: ",".join raises TypeError on a non-str element and
\* on a number in place of the list.
HealthStep(r) ==
    IF r.healthcheck_components # EmptyList /\ Truthy(r.healthcheck_components)
    THEN LET d == JsonLoads(r.healthcheck_components)
         IN  IF ~d.ok \/ d.kind # "list" THEN [ok |-> FALSE, flags |-> << >>]
             ELSE IF d.val = << >>
             THEN [ok |-> TRUE, flags |-> <<S("--customize-health-check")>>]
             ELSE IF \E i \in 1..Len(d.val) : d.val[i].kind # "str"
             THEN [ok |-> FALSE, flags |-> << >>]
             ELSE [ok |-> TRUE,
                   flags |-> <<S("--customize-health-check"), S("--health-check"),
                               Join(S(","), [i \in 1..Len(d.val) |-> S(d.val[i].v)])>>]
    ELSE [ok |-> TRUE, flags |-> << >>]

\* Faulty variant of ExamplesStep: nested under the components test.
ExamplesStep_needs_components(r) ==
    IF r.with_examples /\ r.components # EmptyList
    THEN <<S("--with-examples")>> ELSE << >>

ExamplesStep(r) == IF r.with_examples THEN <<S("--with-examples")>> ELSE << >>

\* Faulty variant of DescriptionStep: the literal "null" is not filtered.
DescriptionStep_keeps_null(r) ==
    IF Truthy(r.description) THEN <<S("--description"), r.description>> ELSE << >>

DescriptionStep(r) ==
    IF Present(r.description) THEN <<S("--description"), r.description>> ELSE << >>

AuthorStep(r) ==
    IF Present(r.author) THEN <<S("--author"), r.author>> ELSE << >>

\* Faulty variant of IsCustom: the project type is not consulted.
IsCustom_any_type(r) == TRUE

IsCustom(r) == r.project_type = S("custom")

\* Faulty variant of build_cli_command: the examples flag precedes the
\* health-check flags and the author precedes the description.
build_cli_command_reordered(r) ==
    LET tail == AuthorStep(r) \o DescriptionStep(r)
    IN  IF IsCustom(r)
        THEN LET c == ComponentsStep(r)
                 h == HealthStep(r)
             IN  IF ~c.ok
                 THEN [ok |-> FALSE, cmd |-> << >>,
                       msg |-> "Failed to parse components JSON"]
                 ELSE IF ~h.ok
                 THEN [ok |-> FALSE, cmd |-> << >>,
                       msg |-> "Failed to parse healthcheck components JSON"]
                 ELSE [ok |-> TRUE,
                       cmd |-> Prefix(r) \o c.flags \o ExamplesStep(r) \o h.flags \o tail,
                       msg |-> ""]
        ELSE [ok |-> TRUE, cmd |-> Prefix(r) \o tail, msg |-> ""]

\* build_cli_command: [ok |-> TRUE, cmd] when it returns; [ok |-> FALSE, msg]
\* when it reports msg and calls sys.exit(1).
build_cli_command(r) ==
    LET tail == DescriptionStep(r) \o AuthorStep(r)
    IN  IF IsCustom(r)
        THEN LET c == ComponentsStep(r)
                 h == HealthStep(r)
             IN  IF ~c.ok
                 THEN [ok |-> FALSE, cmd |-> << >>,
                       msg |-> "Failed to parse components JSON"]
                 ELSE IF ~h.ok
                 THEN [ok |-> FALSE, cmd |-> << >>,
                       msg |-> "Failed to parse healthcheck components JSON"]
                 ELSE [ok |-> TRUE,
                       cmd |-> Prefix(r) \o c.flags \o h.flags \o ExamplesStep(r) \o tail,
                       msg |-> ""]
        ELSE [ok |-> TRUE, cmd |-> Prefix(r) \o tail, msg |-> ""]

\* os.path.join(a, b)
PathJoin(a, b) ==
    IF b # EmptyStr /\ b[1] = "/" THEN b
    ELSE IF a = EmptyStr \/ a[Len(a)] = "/" THEN a \o b
    ELSE a \o S("/") \o b

\* ------------------------------------------------------------------ state
VARIABLES
    \* runner.py process
    runner,        \* the NestjsGeneratorRunner object
    rpc,           \* position in main/execute
    cwd,           \* the process's current working directory
    original_cwd,  \* execute's local
    dirs,          \* the directories that exist on the filesystem
    cmd,           \* execute's local: the compiled command
    spawned,       \* the command vectors handed to subprocess.run, in order
    returncode,    \* exit status of the scaffolding subprocess (<< >> before it ends)
    captured,      \* the subprocess's captured stdout and stderr text
    pending,       \* a raised SystemExit's status on its way through finally (<< >>: none)
    rout,          \* lines the runner process printed, in order
    rexit,         \* exit status of the runner process (<< >> while running)
    \* pr_builder.py process and the hosting platform
    builder,       \* the NestjsGeneratorPRBuilder object
    ppc,           \* position in main/create_pr
    openPr,        \* platform: URL of the open PR for (pr_branch, target_branch)
    existing_pr,   \* create_pr's local
    calls,         \* gh invocations of the current run, in order
    result,        \* create_pr's return value
    pout,          \* lines the publish process printed, in order
    pexit,         \* exit status of the publish process (<< >> while running)
    output_format, \* main's --output-format
    runs           \* publish runs started so far

rvars == <<runner, rpc, cwd, original_cwd, dirs, cmd, spawned, returncode,
           captured, pending, rout, rexit>>
pvars == <<builder, ppc, openPr, existing_pr, calls, result, pout, pexit,
           output_format, runs>>
vars == <<rvars, pvars>>

\* A printed line.
Line(stream, kind, msg, val) ==
    [stream |-> stream, kind |-> kind, msg |-> msg, val |-> val]
\* _error(message): the GitHub Actions error annotation on stderr.
ErrorLine(msg) == Line("stderr", "::error::", msg, EmptyStr)

\* What subprocess.run captured (capture_output=True, text=True).
NoStreams == [stdout |-> EmptyStr, stderr |-> EmptyStr]
Streams == [stdout : {EmptyStr, S("created files")}, stderr : {EmptyStr, S("npm warn")}]

\* Lines 128-131 and 135-138: a captured stream is printed when it is not empty.
PrintStreams(streams) ==
    (IF Truthy(streams.stdout)
     THEN <<Line("stdout", "stdout", "", streams.stdout)>> ELSE << >>)
    \o (IF Truthy(streams.stderr)
        THEN <<Line("stderr", "stderr", "", streams.stderr)>> ELSE << >>)

\* --------------------------------------------------- runner.py: execute
ComponentIds == {"kafka", "bogus"}
HealthIds == {"redis", "db"}
GeneratorOutput == S("/tmp/generator-output")
Workspace == S("/home/runner/work")

RunnerArgs ==
    [generator_name : {S("core-nest-service")},
     project_name : {S("orders-svc")},
     project_type : {S("standard"), S("custom")},
     components : RawJson(ComponentIds),
     healthcheck_components : RawJson(HealthIds),
     description : {None, Some(EmptyStr), Some(S("null")), Some(S("Order API"))},
     author : {None, Some(S("null")), Some(S("team"))},
     with_examples : BOOLEAN,
     output_dir : {GeneratorOutput}]

generated_dir(r) == PathJoin(r.output_dir, r.project_name)

\* The runner starts in the workspace on a fresh machine, or where an earlier
\* run left its output, possibly started from the output directory itself.
RunnerEnv ==
    {[cwd |-> Workspace, dirs |-> {Workspace}],
     [cwd |-> Workspace,
      dirs |-> {Workspace, GeneratorOutput, PathJoin(GeneratorOutput, S("orders-svc"))}],
     [cwd |-> GeneratorOutput, dirs |-> {Workspace, GeneratorOutput}]}

RunnerIdle ==
    /\ runner = NestjsGeneratorRunner(
                   [generator_name |-> S("core-nest-service"),
                    project_name |-> S("orders-svc"),
                    project_type |-> S("standard"),
                    components |-> EmptyList,
                    healthcheck_components |-> EmptyList,
                    description |-> None, author |-> None,
                    with_examples |-> FALSE, output_dir |-> GeneratorOutput])
    /\ cwd = Workspace
    /\ dirs = {Workspace}

RunnerLocalsInit ==
    /\ rpc = "start"
    /\ original_cwd = EmptyStr
    /\ cmd = << >>
    /\ spawned = << >>
    /\ returncode = << >>
    /\ captured = NoStreams
    /\ pending = << >>
    /\ rout = << >>
    /\ rexit = << >>

RunnerInit ==
    /\ \E args \in RunnerArgs : runner = NestjsGeneratorRunner(args)
    /\ \E env \in RunnerEnv : cwd = env.cwd /\ dirs = env.dirs
    /\ RunnerLocalsInit

\* execute, lines 106-111: makedirs(exist_ok), getcwd, chdir.
Enter ==
    /\ rpc = "start"
    /\ dirs' = dirs \cup {runner.output_dir}
    /\ original_cwd' = cwd
    /\ cwd' = runner.output_dir
    /\ rpc' = "compile"
    /\ UNCHANGED <<runner, cmd, spawned, returncode, captured, pending, rout, rexit>>
    /\ UNCHANGED pvars

\* execute, lines 113-124: build the command; when it returns, log it and start
\* the subprocess; when it halts, the error annotation is printed and
\* SystemExit(1) leaves the try block through the finally clause.
Compile ==
    /\ rpc = "compile"
    /\ LET c == build_cli_command(runner)
       IN  IF c.ok
           THEN /\ cmd' = c.cmd
                /\ rout' = Append(rout, Line("stdout", "::notice::",
                                             "Executing CLI command", Join(S(" "), c.cmd)))
                /\ spawned' = Append(spawned, c.cmd)
                /\ rpc' = "subprocess"
                /\ UNCHANGED pending
           ELSE /\ rout' = Append(rout, ErrorLine(c.msg))
                /\ pending' = <<1>>
                /\ rpc' = "finally"
                /\ UNCHANGED <<cmd, spawned>>
    /\ UNCHANGED <<runner, cwd, original_cwd, dirs, returncode, captured, rexit>>
    /\ UNCHANGED pvars

\* Faulty variant of SubprocessExit: a failed subprocess is run a second time.
SubprocessExit_retries ==
    /\ rpc = "subprocess"
    /\ \E rc \in {0, 1}, made \in BOOLEAN, streams \in Streams :
          /\ returncode' = <<rc>>
          /\ captured' = streams
          /\ dirs' = IF made THEN dirs \cup {PathJoin(cwd, runner.project_name)} ELSE dirs
          /\ rout' = rout \o PrintStreams(streams)
          /\ IF rc = 0 \/ Len(spawned) >= 2
             THEN rpc' = "finally" /\ UNCHANGED spawned
             ELSE rpc' = "subprocess" /\ spawned' = Append(spawned, cmd)
    /\ UNCHANGED <<runner, cwd, original_cwd, cmd, pending, rexit>>
    /\ UNCHANGED pvars

\* The subprocess ends (lines 119-138) with exit status rc, having created the
\* project directory in its working directory or not.
SubprocessExit ==
    /\ rpc = "subprocess"
    /\ \E rc \in {0, 1}, made \in BOOLEAN, streams \in Streams :
          /\ returncode' = <<rc>>
          /\ captured' = streams
          /\ dirs' = IF made THEN dirs \cup {PathJoin(cwd, runner.project_name)} ELSE dirs
          /\ IF rc = 0
             THEN /\ rout' = rout \o PrintStreams(streams)
                  /\ UNCHANGED pending
             ELSE /\ rout' = rout \o <<ErrorLine("Generator execution failed")>>
                                  \o PrintStreams(streams)
                  /\ pending' = <<1>>
    /\ rpc' = "finally"
    /\ UNCHANGED <<runner, cwd, original_cwd, cmd, spawned, rexit>>
    /\ UNCHANGED pvars

\* Faulty variant of Finally: the directory is restored on the success path only.
Finally_success_only ==
    /\ rpc = "finally"
    /\ IF pending # << >>
       THEN rexit' = pending /\ rpc' = "exited" /\ UNCHANGED cwd
       ELSE rpc' = "validate" /\ cwd' = original_cwd /\ UNCHANGED rexit
    /\ UNCHANGED <<runner, original_cwd, dirs, cmd, spawned, returncode, captured, pending, rout>>
    /\ UNCHANGED pvars

\* finally: os.chdir(original_cwd), lines 139-140; a pending SystemExit then
\* terminates the process.
Finally ==
    /\ rpc = "finally"
    /\ cwd' = original_cwd
    /\ IF pending # << >>
       THEN rexit' = pending /\ rpc' = "exited"
       ELSE rpc' = "validate" /\ UNCHANGED rexit
    /\ UNCHANGED <<runner, original_cwd, dirs, cmd, spawned, returncode, captured, pending, rout>>
    /\ UNCHANGED pvars

\* Faulty variant of IsDir: the postcondition is not checked.
IsDir_unchecked(path) == TRUE

\* os.path.isdir(generated_dir)
IsDir(path) == path \in dirs

\* execute, lines 142-153, and main, lines 192-193.
Validate ==
    /\ rpc = "validate"
    /\ IF IsDir(generated_dir(runner))
       THEN /\ rout' = Append(rout, Line("stdout", "generated_dir=", "",
                                         generated_dir(runner)))
            /\ rexit' = <<0>>
       ELSE /\ rout' = rout \o <<ErrorLine("Generated directory not found"),
                                 Line("stdout", "listing", "", EmptyStr)>>
            /\ rexit' = <<1>>
    /\ rpc' = "exited"
    /\ UNCHANGED <<runner, cwd, original_cwd, dirs, cmd, spawned, returncode, captured, pending>>
    /\ UNCHANGED pvars

RunnerNext == Enter \/ Compile \/ SubprocessExit \/ Finally \/ Validate

\* --------------------------------------------------------- pr_builder.py
\* NestjsGeneratorPRBuilder.__init__
NestjsGeneratorPRBuilder(args) ==
    [target_branch |-> args.target_branch,
     pr_branch |-> args.pr_branch,
     project_name |-> args.project_name,
     project_type |-> args.project_type,
     components |-> args.components,
     healthcheck_components |-> args.healthcheck_components,
     description |-> OrEmpty(args.description),
     author |-> OrEmpty(args.author),
     with_examples |-> args.with_examples,
     generator_name |-> args.generator_name]

build_pr_title(b) ==
    S("feat: generate initial NestJS service structure for ") \o b.project_name

\* str.upper() of the first character, on the chunks the model uses.
Upper(c) ==
    CASE c = "standard" -> "Standard"
      [] c = "custom" -> "Custom"
      [] OTHER -> c

Capitalized(s) == IF Truthy(s) THEN <<Upper(s[1])>> \o Tail(s) ELSE EmptyStr

\* Faulty variant of ListOrNone: a list that cannot be joined yields the empty
\* text instead of the placeholder.
ListOrNone_blank(raw) ==
    LET d == JsonLoads(raw)
    IN  IF d.ok /\ d.kind = "list" /\ d.val # << >>
           /\ \A i \in 1..Len(d.val) : d.val[i].kind = "str"
        THEN Join(S(", "), [i \in 1..Len(d.val) |-> S(d.val[i].v)])
        ELSE EmptyStr

\* ", ".join(list) if list else "none", inside try/except (JSONDecodeError,
\* TypeError): the placeholder also when decoding fails, when the value is a
\* number and when an element is no str.
ListOrNone(raw) ==
    LET d == JsonLoads(raw)
    IN  IF d.ok /\ d.kind = "list" /\ d.val # << >>
           /\ \A i \in 1..Len(d.val) : d.val[i].kind = "str"
        THEN Join(S(", "), [i \in 1..Len(d.val) |-> S(d.val[i].v)])
        ELSE S("none")

Intro == S("This PR generates the initial NestJS microservice structure.")
Closing ==
    S("\n\nAfter merging, the team can iterate on the service based on their specific needs.")

\* Faulty variant of ComponentsBlock: the health-check line is written outside
\* the block.
ComponentsBlock_health_outside(b) ==
    (IF b.project_type = S("custom") /\ b.components # EmptyList
     THEN S("\n\n**Enabled Components:** ") \o ListOrNone(b.components)
          \o (IF b.with_examples THEN S("\n**With Examples:** Enabled") ELSE EmptyStr)
     ELSE EmptyStr)
    \o (IF b.healthcheck_components # EmptyList /\ Truthy(b.healthcheck_components)
        THEN S("\n**Health Check Components:** ")
             \o ListOrNone(b.healthcheck_components)
        ELSE EmptyStr)

ComponentsBlock(b) ==
    IF b.project_type = S("custom") /\ b.components # EmptyList
    THEN S("\n\n**Enabled Components:** ") \o ListOrNone(b.components)
         \o (IF b.with_examples THEN S("\n**With Examples:** Enabled") ELSE EmptyStr)
         \o (IF b.healthcheck_components # EmptyList /\ Truthy(b.healthcheck_components)
             THEN S("\n**Health Check Components:** ")
                  \o ListOrNone(b.healthcheck_components)
             ELSE EmptyStr)
    ELSE EmptyStr

\* The project name between Markdown code quotes (a grave accent each side,
\* written here as the chunk "'").
Quoted(s) == S("'") \o s \o S("'")

build_pr_body(b) ==
    Intro \o S("\n\n**Project:** ") \o Quoted(b.project_name)
    \o S("\n**Generator:** ") \o b.generator_name
    \o S("\n**Mode:** ") \o Capitalized(b.project_type)
    \o (IF Present(b.description)
        THEN S("\n**Description:** ") \o b.description ELSE EmptyStr)
    \o (IF Present(b.author) THEN S("\n**Author:** ") \o b.author ELSE EmptyStr)
    \o ComponentsBlock(b)
    \o Closing

Digits == {"4", "2"}

\* Faulty variant of extract_pr_number: the pattern without its "+", one digit only.
extract_pr_number_one_digit(pr_url) ==
    LET n == Len(pr_url)
    IN  IF n >= 2 /\ pr_url[n] \in Digits /\ pr_url[n - 1] = "/"
        THEN SubSeq(pr_url, n, n) ELSE EmptyStr

\* re.search(r"/(\d+)$", pr_url): the digits after a "/" when nothing but
\* digits follows it up to the end, where "$" also matches just before one
\* final newline; "" when there is no match.
extract_pr_number(pr_url) ==
    LET n == Len(pr_url)
        e == IF n >= 1 /\ pr_url[n] = "\n" THEN n - 1 ELSE n
        starts == {i \in 1..e : /\ pr_url[i] = "/"
                                /\ i < e
                                /\ \A j \in (i + 1)..e : pr_url[j] \in Digits}
    IN  IF starts = {} THEN EmptyStr
        ELSE LET i == CHOOSE k \in starts : \A m \in starts : k <= m
             IN  SubSeq(pr_url, i + 1, e)

\* ------------------------------------------------ pr_builder.py: create_pr
Labels == <<S("automated"), S("generator")>>
NoLabels == << >>
NoPr == EmptyStr

\* The URLs the platform gives its pull requests: .../pull/<number>.
PlatformUrls ==
    {S("https://host/org/repo/pull") \o S("/") \o d : d \in SeqsOf(Digits, 1, MaxDigits)}

\* One gh invocation with its outcome.
GhCall(sub, title, body, base, head, labels, rc, stdout) ==
    [sub |-> sub, title |-> title, body |-> body, base |-> base, head |-> head,
     labels |-> labels, rc |-> rc, stdout |-> stdout]

\* gh pr list --head pr_branch --base target_branch --json url --jq ...
ListCall(b, rc, stdout) ==
    GhCall("list", EmptyStr, EmptyStr, b.target_branch, b.pr_branch, NoLabels, rc, stdout)

\* gh pr create ... --label automated --label generator (lines 134-155)
LabelledCreate(b, pr_title, pr_body, rc, stdout) ==
    GhCall("create", pr_title, pr_body, b.target_branch, b.pr_branch, Labels, rc, stdout)

\* Faulty variant of PlainCreate: the fallback repeats the labelled call.
PlainCreate_keeps_labels(b, pr_title, pr_body, rc, stdout) ==
    GhCall("create", pr_title, pr_body, b.target_branch, b.pr_branch, Labels, rc, stdout)

\* gh pr create ... without labels (lines 160-177)
PlainCreate(b, pr_title, pr_body, rc, stdout) ==
    GhCall("create", pr_title, pr_body, b.target_branch, b.pr_branch, NoLabels, rc, stdout)

\* check_existing_pr's return value, None rendered as "": the stripped output
\* when gh succeeds, None (after the error annotation) when it fails.
check_existing_pr(rc, stdout) == IF rc = 0 THEN Strip(stdout) ELSE EmptyStr

\* What gh prints for a URL: the URL and a line end; nothing for no URL (jq's
\* "// empty").
GhOutput(url) == IF url = EmptyStr THEN EmptyStr ELSE url \o S("\n")

\* {"pr_url": ..., "pr_number": ...}
PrResult(pr_url) == [pr_url |-> pr_url, pr_number |-> extract_pr_number(pr_url)]

BuilderArgs ==
    [target_branch : {S("main")},
     pr_branch : {S("feature/orders-svc")},
     project_name : {S("orders-svc")},
     project_type : {S("standard"), S("custom")},
     components : {EmptyList, Encode(<<"kafka">>), <<"[", "kafka">>},
     healthcheck_components : {EmptyList, Encode(<<"redis">>)},
     description : {None, Some(S("Order API"))},
     author : {None},
     with_examples : BOOLEAN,
     generator_name : {S("core-nest-service")}]

PublisherLocalsInit ==
    /\ ppc = "check"
    /\ existing_pr = EmptyStr
    /\ calls = << >>
    /\ result = << >>
    /\ pout = << >>
    /\ pexit = << >>

PublisherIdle ==
    /\ builder = NestjsGeneratorPRBuilder(
                    [target_branch |-> S("main"), pr_branch |-> S("feature/orders-svc"),
                     project_name |-> S("orders-svc"), project_type |-> S("standard"),
                     components |-> EmptyList, healthcheck_components |-> EmptyList,
                     description |-> None, author |-> None, with_examples |-> FALSE,
                     generator_name |-> S("core-nest-service")])
    /\ output_format = "github"
    /\ openPr = NoPr
    /\ runs = 1

PublisherInit ==
    /\ \E args \in BuilderArgs : builder = NestjsGeneratorPRBuilder(args)
    /\ output_format \in {"github", "json"}
    /\ openPr \in {NoPr} \cup PlatformUrls
    /\ runs = 1
    /\ PublisherLocalsInit

\* create_pr, lines 122-130, with check_existing_pr, lines 93-118: gh pr list
\* ends with status rc; on success its output is the open PR's URL or empty.
CheckExistingPr ==
    /\ ppc = "check"
    /\ \E rc \in {0, 1} :
          LET stdout == IF rc = 0 THEN GhOutput(openPr) ELSE EmptyStr
              existing == check_existing_pr(rc, stdout)
              reported == IF rc = 0 THEN pout
                          ELSE Append(pout, ErrorLine("Failed to check for existing PR"))
          IN  /\ calls' = Append(calls, ListCall(builder, rc, stdout))
              /\ existing_pr' = existing
              /\ IF Truthy(existing)
                 THEN /\ pout' = Append(reported, Line("stdout", "::notice::",
                                           "Pull request already exists", existing))
                      /\ result' = <<PrResult(existing)>>
                      /\ ppc' = "returned"
                 ELSE /\ pout' = reported
                      /\ ppc' = "create_labels"
                      /\ UNCHANGED result
    /\ UNCHANGED <<builder, openPr, pexit, output_format, runs>>
    /\ UNCHANGED rvars

\* create_pr, lines 132-157 (and 187-188 on success): the create with labels.
\* The platform refuses a second open PR for the same branch pair.
CreateWithLabels ==
    /\ ppc = "create_labels"
    /\ \/ /\ openPr = NoPr
          /\ \E url \in PlatformUrls :
                /\ calls' = Append(calls, LabelledCreate(builder, build_pr_title(builder),
                                                         build_pr_body(builder), 0, GhOutput(url)))
                /\ openPr' = url
                /\ result' = <<PrResult(Strip(GhOutput(url)))>>
          /\ ppc' = "returned"
       \/ /\ calls' = Append(calls, LabelledCreate(builder, build_pr_title(builder),
                                                   build_pr_body(builder), 1, EmptyStr))
          /\ ppc' = "create_plain"
          /\ UNCHANGED <<openPr, result>>
    /\ UNCHANGED <<builder, existing_pr, pout, pexit, output_format, runs>>
    /\ UNCHANGED rvars

\* Faulty variant of CreateWithoutLabels: a failed fallback is tried again.
CreateWithoutLabels_retries ==
    /\ ppc = "create_plain"
    /\ Len(calls) < 5
    /\ calls' = Append(calls, PlainCreate(builder, build_pr_title(builder),
                                          build_pr_body(builder), 1, EmptyStr))
    /\ UNCHANGED <<builder, ppc, openPr, existing_pr, result, pout, pexit,
                   output_format, runs>>
    /\ UNCHANGED rvars

\* create_pr, lines 158-188: the create without labels; when it fails too, the
\* error annotation and gh's streams are printed and the process exits 1.
CreateWithoutLabels ==
    /\ ppc = "create_plain"
    /\ \/ /\ openPr = NoPr
          /\ \E url \in PlatformUrls :
                /\ calls' = Append(calls, PlainCreate(builder, build_pr_title(builder),
                                                      build_pr_body(builder), 0, GhOutput(url)))
                /\ openPr' = url
                /\ result' = <<PrResult(Strip(GhOutput(url)))>>
          /\ ppc' = "returned"
          /\ UNCHANGED <<pout, pexit>>
       \/ /\ calls' = Append(calls, PlainCreate(builder, build_pr_title(builder),
                                                build_pr_body(builder), 1, EmptyStr))
          /\ pout' = pout \o <<ErrorLine("Failed to create PR"),
                               Line("stderr", "stderr", "", EmptyStr)>>
          /\ pexit' = <<1>>
          /\ ppc' = "exited"
          /\ UNCHANGED <<openPr, result>>
    /\ UNCHANGED <<builder, existing_pr, output_format, runs>>
    /\ UNCHANGED rvars

\* main, lines 236-247: print the result; the process ends with status 0.
Output ==
    /\ ppc = "returned"
    /\ pout' = IF output_format = "github"
               THEN pout \o <<Line("stdout", "pr_url=", "", result[1].pr_url),
                              Line("stdout", "pr_number=", "", result[1].pr_number),
                              Line("stdout", "summary", "### Pull Request Created", EmptyStr),
                              Line("stdout", "summary", "link", result[1].pr_url)>>
               ELSE Append(pout, Line("stdout", "json", "", result[1].pr_url))
    /\ pexit' = <<0>>
    /\ ppc' = "exited"
    /\ UNCHANGED <<builder, openPr, existing_pr, calls, result, output_format, runs>>
    /\ UNCHANGED rvars

\* The CI job is run again with the same arguments against the same platform.
Rerun ==
    /\ ppc = "exited"
    /\ runs < MaxRuns
    /\ runs' = runs + 1
    /\ ppc' = "check"
    /\ existing_pr' = EmptyStr
    /\ calls' = << >>
    /\ result' = << >>
    /\ pout' = << >>
    /\ pexit' = << >>
    /\ UNCHANGED <<builder, openPr, output_format>>
    /\ UNCHANGED rvars

PublisherNext == CheckExistingPr \/ CreateWithLabels \/ CreateWithoutLabels \/ Output \/ Rerun

\* ---------------------------------------------------------- specifications
\* The scaffolding pipeline alone.
InitRunner == RunnerInit /\ PublisherIdle /\ PublisherLocalsInit
SpecRunner == InitRunner /\ [][RunnerNext]_vars
\* The publish pipeline alone.
InitPublisher == PublisherInit /\ RunnerIdle /\ RunnerLocalsInit
SpecPublisher == InitPublisher /\ [][PublisherNext]_vars

\* Both pipelines of one CI job.
Init == RunnerInit /\ PublisherInit
Next == RunnerNext \/ PublisherNext
Spec == Init /\ [][Next]_vars

\* ----------------------------------------------------------------- claims
\* The gh pr create invocations of the current run, in order.
Creates == SelectSeq(calls, LAMBDA c : c.sub = "create")

\* The trailing run of decimal digits of a string.
TrailingDigits(url) ==
    LET n == Len(url)
        runs_ == {k \in 0..n : \A j \in (n - k + 1)..n : url[j] \in Digits}
        k == CHOOSE m \in runs_ : \A o \in runs_ : o <= m
    IN  SubSeq(url, n - k + 1, n)

HasKind(log, kind) == \E i \in 1..Len(log) : log[i].kind = kind
HasError(log) == HasKind(log, "::error::")
SuccessKinds == {"generated_dir=", "pr_url=", "pr_number="}

\* The query of the current run ended, with a non-empty URL / with an error.
QueryFound == Len(calls) >= 1 /\ calls[1].sub = "list" /\ calls[1].rc = 0
              /\ calls[1].stdout \notin {<< >>, <<"\n">>}
QueryFailed == Len(calls) >= 1 /\ calls[1].sub = "list" /\ calls[1].rc # 0

\* C1: whenever the existing-resource query returns a non-empty URL, the run
\* issues no create call, returns exactly that URL as pr_url and the number
\* at the end of that URL as pr_number.
C1_FoundReturnsExisting ==
    QueryFound =>
        /\ Len(Creates) = 0
        /\ Len(calls) = 1
        /\ ppc \in {"returned", "exited"}
        /\ calls[1].stdout = openPr \o <<"\n">>
        /\ result = <<[pr_url |-> openPr, pr_number |-> TrailingDigits(openPr)]>>

\* C1 witness: the query returned .../pull/42 and the run ended with "42".
C1_Witness ==
    /\ QueryFound
    /\ calls[1].stdout = <<"https://host/org/repo/pull", "/", "4", "2", "\n">>
    /\ ppc = "exited"
    /\ pexit = <<0>>
    /\ result # << >>
    /\ result[1].pr_number = <<"4", "2">>

\* C2: when the query fails with a tool-level error, the error is reported and
\* the run halts with non-zero status: no create call follows and no result
\* is returned.
C2_QueryFailureHalts ==
    QueryFailed =>
        /\ HasError(pout)
        /\ Len(Creates) = 0
        /\ result = << >>
        /\ pexit # <<0>>

\* C3: when the labelled create fails and the label-less create succeeds, the
\* run made exactly two create calls, first with the two labels, then without,
\* and returns the URL and number of the second call's output.
C3_FallbackResult ==
    ((\E i \in 1..Len(Creates) : Creates[i].rc # 0)
        /\ (\E j \in 1..Len(Creates) : Creates[j].rc = 0)) =>
        /\ Len(Creates) = 2
        /\ Creates[1].labels = <<S("automated"), S("generator")>>
        /\ Creates[1].rc # 0
        /\ Creates[2].labels = << >>
        /\ Creates[2].rc = 0
        /\ result # << >>
        /\ Creates[2].stdout = result[1].pr_url \o <<"\n">>
        /\ result[1].pr_url = openPr
        /\ result[1].pr_number = TrailingDigits(openPr)

\* C3 witness: a run that ended successfully on the label-less create.
C3_Witness ==
    /\ Len(Creates) = 2
    /\ Creates[1].rc = 1
    /\ Creates[2].rc = 0
    /\ Creates[2].labels = << >>
    /\ ppc = "exited"
    /\ pexit = <<0>>
    /\ result[1].pr_url \o <<"\n">> = Creates[2].stdout

\* C4: once an open resource for the branch pair exists on the platform, every
\* later run issues no create call and returns that resource's URL.
C4_RerunIsSafe ==
    (/\ runs >= 2
     /\ openPr # NoPr
     /\ ~\E i \in 1..Len(Creates) : Creates[i].rc = 0) =>
        /\ Len(Creates) = 0
        /\ ppc = "exited" => (result # << >> /\ result[1].pr_url = openPr)

FatalIsFinal(log, exit) ==
    /\ \A i \in 1..Len(log) : \A j \in (i + 1)..Len(log) :
          log[i].kind = "::error::" => log[j].kind \notin SuccessKinds
    /\ (HasError(log) /\ exit # << >>) => exit # <<0>>

\* C6: in both pipelines every fatal condition emits an error annotation and
\* then ends the process with non-zero status, and no success output line
\* (generated_dir=, pr_url=, pr_number=) follows the annotation.
C6_FatalIsFinal == FatalIsFinal(rout, rexit) /\ FatalIsFinal(pout, pexit)

\* The flags the components, health-check and examples steps can append.
FeatureFlags ==
    {S(f) : f \in {"--kafka", "--orm", "--grpc", "--gql", "--redis", "--swagger",
                   "--got", "--customize-health-check", "--health-check",
                   "--with-examples"}}

\* build_cli_command has returned: the command is compiled and was spawned.
Compiled == rpc \notin {"start", "compile"} /\ spawned # << >>

\* The absence rule of the data model: empty or the literal text "null".
Absent(s) == s = << >> \/ s = <<"null">>

\* C7: under projectType = standard the compiled vector holds none of the
\* component, health-check and examples flags, whatever the three fields
\* contain; with description and author absent it is exactly the eight-element
\* prefix.
C7_StandardHasNoFeatureFlags ==
    (Compiled /\ runner.project_type = <<"standard">>) =>
        /\ spawned = <<cmd>>
        /\ \A i \in 1..Len(cmd) : cmd[i] \notin FeatureFlags
        /\ (Absent(runner.description) /\ Absent(runner.author)) =>
              cmd = <<S("yo"), runner.generator_name, S("--headless"),
                      S("--project-type"), S("standard"), S("--name"),
                      runner.project_name, S("--skip-install")>>

\* C7 witness: a standard project whose feature fields are all set ran with
\* the bare prefix.
C7_Witness ==
    /\ Compiled
    /\ runner.project_type = <<"standard">>
    /\ runner.components = <<"[", "kafka", ",", "kafka", "]">>
    /\ runner.healthcheck_components = <<"[", "redis", "]">>
    /\ runner.with_examples
    /\ runner.description = <<"null">>
    /\ runner.author = << >>
    /\ Len(cmd) = 8
    /\ rpc = "exited"

\* json.loads raises JSONDecodeError on the text.
Malformed(raw) == ~JsonLoads(raw).ok

\* The run halted on a fatal input error before any external call.
HaltedBeforeSpawn ==
    /\ spawned = << >>
    /\ returncode = << >>
    /\ rpc \in {"start", "compile", "finally", "exited"}
    /\ rpc \in {"finally", "exited"} => (HasError(rout) /\ pending = <<1>>)
    /\ rpc = "exited" => rexit = <<1>>

\* A field holds malformed JSON. An empty healthcheck text counts as the field
\* being absent (the data model's presence rule), not as malformed input.
MalformedInput ==
    \/ Malformed(runner.components)
    \/ runner.healthcheck_components # << >> /\ Malformed(runner.healthcheck_components)

\* C8: for every Parameters whose components or healthcheckComponents is
\* malformed JSON, the command compiler reports a fatal input error and halts
\* the run with non-zero status; the scaffolding subprocess is never started.
C8_MalformedJsonHalts == MalformedInput => HaltedBeforeSpawn

\* C8 as amended: the same for projectType = custom; under standard the two
\* fields are never decoded.
C8_MalformedJsonHaltsUnderCustom ==
    (runner.project_type = <<"custom">> /\ MalformedInput) => HaltedBeforeSpawn

\* C8 witness: a custom project with well-formed components and a truncated
\* healthcheck list ended with status 1, nothing spawned.
C8_Witness ==
    /\ runner.project_type = <<"custom">>
    /\ runner.components = <<"[", "kafka", "]">>
    /\ runner.healthcheck_components = <<"[", "redis">>
    /\ rpc = "exited"
    /\ rexit = <<1>>
    /\ spawned = << >>
    /\ HasError(rout)

\* C9: on every exit path of execute the working directory is the one execute
\* was entered with; it is outputDir only while the subprocess runs.
C9_CwdRestored ==
    /\ rpc \in {"validate", "exited"} => cwd = original_cwd
    /\ (rpc # "start" /\ cwd = runner.output_dir /\ original_cwd # runner.output_dir)
          => rpc = "subprocess"

\* C9 as amended: the working directory is restored on every exit path; it
\* differs from the entry directory only between the chdir that opens the try
\* block and the finally clause (command compilation, the subprocess run, the
\* reporting of its streams), and is outputDir then.
C9_CwdRestoredAfterTry ==
    /\ rpc \in {"validate", "exited"} => cwd = original_cwd
    /\ (rpc # "start" /\ cwd # original_cwd)
          => (cwd = runner.output_dir /\ rpc \in {"compile", "subprocess", "finally"})

\* C9 witness: a halt on malformed JSON left the process in its entry directory.
C9_Witness ==
    /\ rpc = "exited"
    /\ rexit = <<1>>
    /\ spawned = << >>
    /\ original_cwd # runner.output_dir
    /\ cwd = original_cwd

GeneratedDirEmitted == HasKind(rout, "generated_dir=")

\* C10: a zero exit of the subprocess with outputDir/projectName missing ends
\* the run with non-zero status and no generated_dir line; the line is emitted,
\* with outputDir/projectName, only after a zero exit with the directory there.
C10_ArtifactPostcondition ==
    LET artifact == runner.output_dir \o <<"/">> \o runner.project_name
    IN  /\ GeneratedDirEmitted =>
              /\ returncode = <<0>>
              /\ artifact \in dirs
              /\ rout[Len(rout)] = Line("stdout", "generated_dir=", "", artifact)
              /\ rexit = <<0>>
        /\ (rpc = "exited" /\ returncode = <<0>> /\ artifact \notin dirs) =>
              /\ rexit = <<1>>
              /\ HasError(rout)
              /\ ~GeneratedDirEmitted
        /\ rexit = <<0>> => GeneratedDirEmitted

\* C10 witness: the subprocess exited zero, the directory is missing, the run
\* ended with status 1.
C10_Witness ==
    /\ rpc = "exited"
    /\ returncode = <<0>>
    /\ generated_dir(runner) \notin dirs
    /\ rexit = <<1>>
    /\ ~GeneratedDirEmitted

\* ------------------------------------------- the command compiler alone
\* Component identifiers for the compiler's own specification: two that the
\* mapping knows and one it does not.
CompileComponentIds == {"kafka", "redis", "bogus"}

CompileArgs ==
    [generator_name : {S("core-nest-service")},
     project_name : {S("orders-svc")},
     project_type : {S("standard"), S("custom")},
     components : RawJson(CompileComponentIds),
     healthcheck_components : RawJson(HealthIds),
     description : {None, Some(S("Order API"))},
     author : {None, Some(S("team"))},
     with_examples : BOOLEAN,
     output_dir : {GeneratorOutput}]

\* The runner on a fresh machine, over the compiler's wider parameters.
InitCompile ==
    /\ \E args \in CompileArgs : runner = NestjsGeneratorRunner(args)
    /\ cwd = Workspace
    /\ dirs = {Workspace}
    /\ RunnerLocalsInit
    /\ PublisherIdle
    /\ PublisherLocalsInit
SpecCompile == InitCompile /\ [][RunnerNext]_vars

\* The flags of the mapping table.
ComponentFlagSet == {S(COMPONENT_MAP[c]) : c \in DOMAIN COMPONENT_MAP}

\* The component flags of a vector, in the vector's order.
ComponentFlagsOf(v) == SelectSeq(v, LAMBDA e : e \in ComponentFlagSet)

\* The decoded components list of the runner ("[]" and any array text).
DecodedComponents == JsonLoads(runner.components).val

\* The images of the recognized str elements of a list, one per occurrence.
RECURSIVE Images(_)
Images(list) ==
    IF list = << >> THEN << >>
    ELSE LET rest == Images(SubSeq(list, 1, Len(list) - 1))
             last == list[Len(list)]
         IN  IF last.kind = "str" /\ last.v \in DOMAIN COMPONENT_MAP
             THEN Append(rest, S(COMPONENT_MAP[last.v]))
             ELSE rest

\* C11: under projectType = custom the component flags of the vector are
\* exactly the images, under the fixed seven-entry mapping, of the recognized
\* elements of the decoded list, one per occurrence and in list order;
\* unrecognized elements contribute nothing and nothing is deduplicated.
C11_ComponentFlagsAreImages ==
    (Compiled /\ runner.project_type = <<"custom">>) =>
        /\ Cardinality(DOMAIN COMPONENT_MAP) = 7
        /\ ComponentFlagsOf(cmd) = Images(DecodedComponents)
        /\ SubSeq(cmd, 9, 8 + Len(Images(DecodedComponents))) = Images(DecodedComponents)
        /\ Len(ComponentFlagsOf(cmd))
              = Cardinality({i \in 1..Len(DecodedComponents) :
                                DecodedComponents[i].v \in {"kafka", "redis"}})

\* C11 witness: ["kafka","kafka"] compiled to two --kafka flags.
C11_Witness ==
    /\ Compiled
    /\ runner.project_type = <<"custom">>
    /\ runner.components = <<"[", "kafka", ",", "kafka", "]">>
    /\ ComponentFlagsOf(cmd) = <<S("--kafka"), S("--kafka")>>

\* C11 witness, second case: an unknown identifier between two known ones
\* leaves their flags in list order.
C11_WitnessOrder ==
    /\ Compiled
    /\ runner.project_type = <<"custom">>
    /\ runner.components = <<"[", "redis", ",", "kafka", "]">>
    /\ SubSeq(cmd, 9, 10) = <<S("--redis"), S("--kafka")>>

\* ------------------------------------- both compilers on one parameter record
SharedArgs ==
    [generator_name : {S("core-nest-service")},
     project_name : {S("orders-svc")},
     project_type : {S("standard"), S("custom")},
     components : {EmptyList, Encode(<<"kafka">>), <<"[", "kafka">>},
     healthcheck_components : {EmptyList},
     description : {None, Some(EmptyStr), Some(S("null")), Some(S("Order API"))},
     author : {None, Some(EmptyStr), Some(S("null")), Some(S("team"))},
     with_examples : {FALSE},
     output_dir : {GeneratorOutput},
     target_branch : {S("main")},
     pr_branch : {S("feature/orders-svc")}]

\* One CI job: both scripts are started with the same parameters, on a fresh
\* machine and a platform without an open PR.
InitPipelines ==
    /\ \E args \in SharedArgs :
          /\ runner = NestjsGeneratorRunner(args)
          /\ builder = NestjsGeneratorPRBuilder(args)
    /\ cwd = Workspace
    /\ dirs = {Workspace}
    /\ RunnerLocalsInit
    /\ output_format = "github"
    /\ openPr = NoPr
    /\ runs = 1
    /\ PublisherLocalsInit
SpecPipelines == InitPipelines /\ [][Next]_vars

\* The vector holds the flag / the flag directly followed by the value.
HasFlag(v, flag) == \E i \in 1..Len(v) : v[i] = S(flag)
HasFlagValue(v, flag, val) ==
    \E i \in 1..(Len(v) - 1) : v[i] = S(flag) /\ v[i + 1] = val

\* The body holds the label / the label directly followed by the text.
HasLabel(body, label) == \E i \in 1..Len(body) : body[i] = label
HasLabelText(body, label, text) ==
    \E i \in 1..Len(body) :
        /\ body[i] = label
        /\ i + Len(text) <= Len(body)
        /\ SubSeq(body, i + 1, i + Len(text)) = text

\* The body the publish run compiled (the one its create calls carry).
CompiledBody == Creates[1].body
BothCompiled == Compiled /\ Len(Creates) >= 1

\* One optional field is treated alike by both compilers.
SameAbsenceRule(value, flag, label) ==
    LET present == value # << >> /\ value # <<"null">>
    IN  /\ HasFlag(cmd, flag) <=> HasLabel(CompiledBody, label)
        /\ HasFlag(cmd, flag) <=> present
        /\ present => /\ HasFlagValue(cmd, flag, value)
                      /\ HasLabelText(CompiledBody, label, value)

\* C12: the absence rule is the same in both compilers: the command compiler
\* emits --description with the raw value exactly when the message compiler
\* emits the description line with the value verbatim, and both do so exactly
\* when the value is neither empty nor the text "null"; likewise for author.
\* (Stated of the runs in which both compilers returned.)
C12_SameAbsenceRule ==
    BothCompiled =>
        /\ runner.description = builder.description
        /\ runner.author = builder.author
        /\ SameAbsenceRule(runner.description, "--description", "\n**Description:** ")
        /\ SameAbsenceRule(runner.author, "--author", "\n**Author:** ")

\* C12 witness: description "null" is dropped by both, author "team" is
\* emitted by both.
C12_Witness ==
    /\ BothCompiled
    /\ runner.description = <<"null">>
    /\ runner.author = <<"team">>
    /\ ~HasFlag(cmd, "--description")
    /\ ~HasLabel(CompiledBody, "\n**Description:** ")
    /\ HasFlagValue(cmd, "--author", <<"team">>)
    /\ HasLabelText(CompiledBody, "\n**Author:** ", <<"team">>)

\* ------------------------------------------ custom mode with components = []
DecodedHealth == JsonLoads(runner.healthcheck_components)
HealthIsNonEmptyList ==
    /\ DecodedHealth.ok
    /\ DecodedHealth.kind = "list"
    /\ DecodedHealth.val # << >>
JoinedHealth ==
    Join(S(","), [i \in 1..Len(DecodedHealth.val) |-> S(DecodedHealth.val[i].v)])
CustomWithoutComponents ==
    /\ Compiled
    /\ runner.project_type = <<"custom">>
    /\ runner.components = EmptyList

\* C13: under project type custom with components = [] the health-check and
\* examples steps are still evaluated: with_examples appends --with-examples,
\* and a non-empty healthcheck list appends the health-check flags right after
\* the prefix, although no component flag is emitted.
C13_StepsIndependentOfComponents ==
    CustomWithoutComponents =>
        /\ ComponentFlagsOf(cmd) = << >>
        /\ runner.with_examples <=> HasFlag(cmd, "--with-examples")
        /\ HealthIsNonEmptyList =>
              /\ Len(cmd) >= 11
              /\ SubSeq(cmd, 9, 11) = <<S("--customize-health-check"),
                                        S("--health-check"), JoinedHealth>>
              /\ runner.with_examples => cmd[12] = S("--with-examples")

\* C13 witness: components = [], health-check list ["redis","db"], examples on.
C13_Witness ==
    /\ CustomWithoutComponents
    /\ runner.with_examples
    /\ runner.healthcheck_components = Encode(<<"redis", "db">>)
    /\ SubSeq(cmd, 9, 12) = <<S("--customize-health-check"), S("--health-check"),
                              <<"redis", ",", "db">>, S("--with-examples")>>

\* ------------------------------------------------- the subprocess runs once
\* What a failed subprocess makes execute print, lines 133-138.
FailureReport ==
    <<ErrorLine("Generator execution failed")>> \o PrintStreams(captured)
EndsWith(log, tail) ==
    /\ Len(log) >= Len(tail)
    /\ SubSeq(log, Len(log) - Len(tail) + 1, Len(log)) = tail

\* C14: the scaffolding subprocess is started at most once per execute; on a
\* non-zero exit the captured streams are reported after the error annotation
\* and the run terminates with non-zero status: nothing is started again and
\* nothing of the artifact check (its path line, its error, its listing) is
\* ever printed.
C14_SubprocessNeverRetried ==
    /\ Len(spawned) <= 1
    /\ returncode = <<1>> =>
          /\ rpc \in {"finally", "exited"}
          /\ pending = <<1>>
          /\ EndsWith(rout, FailureReport)
          /\ ~HasKind(rout, "generated_dir=")
          /\ ~HasKind(rout, "listing")
          /\ rpc = "exited" => rexit = <<1>>

\* C14 witness: the subprocess failed after creating the project directory and
\* writing to both streams; the run exited 1 after one start.
C14_Witness ==
    /\ rpc = "exited"
    /\ returncode = <<1>>
    /\ Len(spawned) = 1
    /\ Truthy(captured.stdout) /\ Truthy(captured.stderr)
    /\ Len(FailureReport) = 3
    /\ EndsWith(rout, FailureReport)
    /\ generated_dir(runner) \in dirs
    /\ rexit = <<1>>

\* ------------------------------------------------- the health-check flags
\* Position of --customize-health-check in the compiled vector (0: absent).
CustomizeAt ==
    IF HasFlag(cmd, "--customize-health-check")
    THEN CHOOSE i \in 1..Len(cmd) : cmd[i] = S("--customize-health-check")
    ELSE 0

\* --customize-health-check, where it appears, is directly followed by
\* --health-check and the comma-joined list.
CustomizeHasValue ==
    CustomizeAt > 0 =>
        /\ CustomizeAt + 2 <= Len(cmd)
        /\ cmd[CustomizeAt + 1] = S("--health-check")
        /\ cmd[CustomizeAt + 2] = JoinedHealth

\* C15: under project type custom, a healthcheck value that is present and
\* non-empty puts --customize-health-check, --health-check and the joined list
\* side by side into the vector; otherwise neither flag appears; the first flag
\* never appears in a returned vector without the second and its value.
C15_HealthFlagsComeTogether ==
    (Compiled /\ runner.project_type = <<"custom">>) =>
        /\ HealthIsNonEmptyList => (CustomizeAt > 0 /\ CustomizeHasValue)
        /\ ~HealthIsNonEmptyList =>
              (~HasFlag(cmd, "--customize-health-check")
               /\ ~HasFlag(cmd, "--health-check"))
        /\ CustomizeHasValue

\* ------------------------------------------------------ order of the vector
\* The part of the pipeline the i-th element of the vector belongs to:
\* 1 component flag, 2 health-check flags and value, 3 examples flag,
\* 4 description flag and value, 5 author flag and value (0: none of them).
PartOf(i) ==
    IF cmd[i - 1] = S("--health-check") THEN 2
    ELSE IF cmd[i - 1] = S("--description") THEN 4
    ELSE IF cmd[i - 1] = S("--author") THEN 5
    ELSE IF cmd[i] \in ComponentFlagSet THEN 1
    ELSE IF cmd[i] \in {S("--customize-health-check"), S("--health-check")} THEN 2
    ELSE IF cmd[i] = S("--with-examples") THEN 3
    ELSE IF cmd[i] = S("--description") THEN 4
    ELSE IF cmd[i] = S("--author") THEN 5
    ELSE 0

FixedPrefix ==
    <<S("yo"), runner.generator_name, S("--headless"), S("--project-type"),
      runner.project_type, S("--name"), runner.project_name, S("--skip-install")>>

\* C16: whenever build_cli_command returns, the first eight elements of the
\* vector are yo, the generator name, --headless, --project-type, the project
\* type, --name, the project name, --skip-install, and the optional parts
\* follow in this relative order: component flags (in list order), health-check
\* flags, examples flag, description flag and value, author flag and value.
C16_VectorOrder ==
    Compiled =>
        /\ Len(cmd) >= 8
        /\ SubSeq(cmd, 1, 8) = FixedPrefix
        /\ \A i \in 9..Len(cmd) : PartOf(i) \in 1..5
        /\ \A i, j \in 9..Len(cmd) : i < j => PartOf(i) <= PartOf(j)
        /\ \A p \in 3..5 :
              Cardinality({i \in 9..Len(cmd) : PartOf(i) = p}) <= (IF p = 3 THEN 1 ELSE 2)
        /\ runner.project_type = <<"custom">> =>
              ComponentFlagsOf(cmd) = Images(DecodedComponents)

\* C16 witness: components ["kafka","redis"], health-check ["redis"], examples,
\* description and author give the full vector in pipeline order.
C16_Witness ==
    /\ Compiled
    /\ runner.components = Encode(<<"kafka", "redis">>)
    /\ runner.healthcheck_components = Encode(<<"redis">>)
    /\ cmd = FixedPrefix \o
             <<S("--kafka"), S("--redis"),
               S("--customize-health-check"), S("--health-check"), S("redis"),
               S("--with-examples"),
               S("--description"), S("Order API"),
               S("--author"), S("team")>>

\* ------------------------------------------------ the message compiler alone
MessageArgs ==
    [target_branch : {S("main")},
     pr_branch : {S("feature/orders-svc")},
     project_name : {S("orders-svc")},
     project_type : {S("standard"), S("custom")},
     components : RawJson(ComponentIds),
     healthcheck_components : RawJson({"redis"}),
     description : {None},
     author : {None},
     with_examples : BOOLEAN,
     generator_name : {S("core-nest-service")}]

\* The publish script started on any parameter texts, on a platform without an
\* open PR.
InitMessage ==
    /\ \E args \in MessageArgs : builder = NestjsGeneratorPRBuilder(args)
    /\ output_format = "github"
    /\ openPr = NoPr
    /\ runs = 1
    /\ PublisherLocalsInit
    /\ RunnerIdle
    /\ RunnerLocalsInit
SpecMessage == InitMessage /\ [][PublisherNext]_vars

ComponentsLabel == "\n\n**Enabled Components:** "
ExamplesLine == "\n**With Examples:** Enabled"
HealthLabel == "\n**Health Check Components:** "

\* The text decodes to a non-empty list whose elements are all strings.
DecodesToStrings(raw) ==
    LET d == JsonLoads(raw)
    IN  /\ d.ok
        /\ d.kind = "list"
        /\ d.val # << >>
        /\ \A i \in 1..Len(d.val) : d.val[i].kind = "str"
ItemsOf(raw) ==
    LET d == JsonLoads(raw) IN [i \in 1..Len(d.val) |-> S(d.val[i].v)]

\* A list line of the body carries the joined items, or the placeholder where
\* the text does not decode to a non-empty list of strings.
LineCarries(body, label, raw) ==
    HasLabel(body, label) =>
        IF DecodesToStrings(raw)
        THEN HasLabelText(body, label, Join(S(", "), ItemsOf(raw)))
        ELSE HasLabelText(body, label, S("none"))

\* C17: build_pr_body is total: whatever the components and healthcheck texts
\* are (malformed JSON, a number, a list holding a number), the run goes on to
\* the create call with a complete body and halts only when both create calls
\* were refused; a list line whose text fails to decode, or decodes to an empty
\* list, carries the placeholder none.
C17_BodyIsTotal ==
    /\ ppc = "create_plain" => Len(Creates) >= 1
    /\ pexit = <<1>> => Len(Creates) = 2
    /\ Len(Creates) >= 1 =>
          /\ SubSeq(CompiledBody, 1, 1) = Intro
          /\ EndsWith(CompiledBody, Closing)
          /\ LineCarries(CompiledBody, ComponentsLabel, builder.components)
          /\ LineCarries(CompiledBody, HealthLabel, builder.healthcheck_components)

\* C17 witness: a malformed components text and a healthcheck list holding a
\* number; the PR is created with both lines carrying the placeholder.
C17_Witness ==
    /\ ppc = "returned"
    /\ result # << >>
    /\ Len(Creates) >= 1
    /\ builder.components = <<"[", "kafka">>
    /\ builder.healthcheck_components = <<"[", "5", "]">>
    /\ HasLabelText(CompiledBody, ComponentsLabel, S("none"))
    /\ HasLabelText(CompiledBody, HealthLabel, S("none"))

\* ------------------------------------------------- the blocks of the body
\* The components set, as far as the text determines one, is non-empty.
ComponentsSetNonEmpty ==
    LET d == JsonLoads(builder.components)
    IN  d.ok /\ d.kind = "list" /\ d.val # << >>

BlockAppears == HasLabel(CompiledBody, ComponentsLabel)
RawHealthPresent ==
    /\ builder.healthcheck_components # EmptyStr
    /\ builder.healthcheck_components # <<"[", "]">>

\* The lines inside the block, and the frame of the body.
BlockLinesAndFrame ==
    /\ HasLabel(CompiledBody, ExamplesLine) <=> (BlockAppears /\ builder.with_examples)
    /\ HasLabel(CompiledBody, HealthLabel) <=> (BlockAppears /\ RawHealthPresent)
    /\ SubSeq(CompiledBody, 1, 1) = Intro
    /\ EndsWith(CompiledBody, Closing)

\* C18 as stated: the components block appears iff the project type is custom
\* and the components set is non-empty; the examples line appears iff the block
\* does and with_examples holds; the health-check line appears iff the block
\* does and the raw healthcheck text is present and non-empty; the body starts
\* with the intro and ends with the closing sentence.
C18_BlockIffSetNonEmpty ==
    Len(Creates) >= 1 =>
        /\ BlockAppears <=>
              (builder.project_type = <<"custom">> /\ ComponentsSetNonEmpty)
        /\ BlockLinesAndFrame

\* C18 amended: the components block appears iff the project type is custom
\* and the raw components text differs from "[]"; the rest as stated.
C18_BlockIffTextNotEmptyList ==
    Len(Creates) >= 1 =>
        /\ BlockAppears <=>
              (builder.project_type = <<"custom">> /\ builder.components # <<"[", "]">>)
        /\ BlockLinesAndFrame

\* C18 witness: the components text "[ ]" holds no component, yet the block
\* appears, with the placeholder, the examples line and the health-check line.
C18_Witness ==
    /\ Len(Creates) >= 1
    /\ builder.project_type = <<"custom">>
    /\ builder.components = <<"[", " ", "]">>
    /\ builder.with_examples
    /\ builder.healthcheck_components = Encode(<<"redis">>)
    /\ HasLabelText(CompiledBody, ComponentsLabel, S("none"))
    /\ HasLabel(CompiledBody, ExamplesLine)
    /\ HasLabelText(CompiledBody, HealthLabel, S("redis"))

\* ------------------------------------------- _extract_pr_number on any text
MaxUrlLen == 3
UrlChunks == {"h", "/", "\n"} \cup Digits
UrlStrings == SeqsOf(UrlChunks, 0, MaxUrlLen)

\* The static method is handed any string as the URL.
InitExtract ==
    /\ PublisherIdle
    /\ ppc = "check"
    /\ \E url \in UrlStrings : existing_pr = url
    /\ calls = << >>
    /\ result = << >>
    /\ pout = << >>
    /\ pexit = << >>
    /\ RunnerIdle
    /\ RunnerLocalsInit

\* Lines 187-188 with 190-194: the number is extracted and the pair returned.
ExtractPrNumber ==
    /\ ppc = "check"
    /\ result' = <<PrResult(existing_pr)>>
    /\ ppc' = "returned"
    /\ UNCHANGED <<builder, openPr, existing_pr, calls, pout, pexit, output_format, runs>>
    /\ UNCHANGED rvars
SpecExtract == InitExtract /\ [][ExtractPrNumber]_vars

Extracted == ppc = "returned" /\ result # << >>
EndsInDigit(url) == Len(url) >= 1 /\ url[Len(url)] \in Digits

\* The text without one final newline, and its part after the last "/".
WithoutFinalNewline(url) ==
    IF Len(url) >= 1 /\ url[Len(url)] = "\n" THEN SubSeq(url, 1, Len(url) - 1) ELSE url
LastSlash(url) ==
    IF \E i \in 1..Len(url) : url[i] = "/"
    THEN CHOOSE i \in 1..Len(url) :
            url[i] = "/" /\ \A j \in (i + 1)..Len(url) : url[j] # "/"
    ELSE 0
LastSegment(url) == SubSeq(url, LastSlash(url) + 1, Len(url))
AllDigits(s) == \A i \in 1..Len(s) : s[i] \in Digits

\* C19 as stated: for every URL string the method returns the trailing run of
\* decimal digits, and returns "" exactly when the URL does not end in a digit.
C19_TrailingDigits ==
    Extracted =>
        /\ result[1].pr_number = TrailingDigits(result[1].pr_url)
        /\ result[1].pr_number = EmptyStr <=> ~EndsInDigit(result[1].pr_url)

\* C19 amended: the method returns the text after the last "/" of the URL (one
\* final newline aside) when the URL has a "/" and that text is a non-empty run
\* of decimal digits; in every other case it returns "".
C19_DigitsAfterLastSlash ==
    Extracted =>
        LET url == WithoutFinalNewline(result[1].pr_url)
        IN  result[1].pr_number =
               IF LastSlash(url) > 0 /\ LastSegment(url) # << >> /\ AllDigits(LastSegment(url))
               THEN LastSegment(url)
               ELSE EmptyStr

\* C19 witness: a two-digit number after the last "/" is returned whole.
C19_Witness ==
    /\ Extracted
    /\ result[1].pr_url = <<"/", "4", "2">>
    /\ result[1].pr_number = <<"4", "2">>

\* A URL that ends in a digit without a "/" before the digits yields "".
C19_WitnessNoSlash ==
    /\ Extracted
    /\ result[1].pr_url = <<"/", "h", "4">>
    /\ result[1].pr_number = EmptyStr
====
